---- MODULE Spec2Model ----
(***************************************************************************)
(* State-machine model of the real-time session subsystem of the recipe    *)
(* backend: the WebSocket connection registry and fan-out messenger        *)
(* (app/core/websocket_manager.py), the session and history store          *)
(* (app/services/mongodb_recipe_generation_service.py) and the two         *)
(* WebSocket endpoints recipe_gen and recipe_gen_celery                    *)
(* (app/api/v1/endpoints/ws.py).                                           *)
(*                                                                         *)
(* Every endpoint invocation is one coroutine of the asyncio event loop.   *)
(* A step of the model is the code a coroutine runs between two awaits;    *)
(* coroutines interleave only at awaits.                                   *)
(***************************************************************************)
EXTENDS Integers, Sequences, FiniteSets, TLC

\* ---------------------------------------------------------------- bounds
MaxHandlers == 3
MainHandlers == 2
MaxSessions == 2
MaxWorkerMsgs == 1
MaxClientMsgs == 1
MaxAttempts == 2
MaxAppends == 2
MaxDeliveries == 2
MaxTasks == 1
MaxCallers == 2

Handlers == 1..MaxHandlers
SessionIds == 1..MaxSessions
NoSession == 0
NoConn == 0
TaskIds == 1..MaxTasks
Callers == 1..MaxCallers
NoTask == 0

VARIABLES
    active_connections,   \* connection_id -> websocket (the handler owning it)
    session_connections,  \* session_id -> set of connection_ids
    sessions_collection,  \* session_id -> status, for the session documents that exist
    cooking_sessions_collection, \* session_ids of the cooking session documents that exist
    history_collection,   \* session_id -> sequence of history messages, for the documents that exist
    nextSession,          \* number of session ids handed out by uuid4 in create_session
    started,              \* number of endpoint invocations so far
    kind,                 \* handler -> "none" | "client" | "worker" | "cook"
    pc,                   \* handler -> position of the coroutine
    session_id,           \* handler -> local variable session_id
    connection_id,        \* handler -> local variable connection_id (NoConn: not in locals())
    is_fast_connect,      \* handler -> local variable is_fast_connect
    messages,             \* handler -> local variable messages of send_session_history
    message_data,         \* handler -> local variable message_data of recipe_gen_celery
    fanout,               \* handler -> frame of its send_personal_message call
    pendingPush,          \* caller -> its history update_one in flight (<<>>: none)
    calls,                \* message_id -> the session of that add_message_to_history call, and
                          \* the message_ids whose calls had returned when it began
    appended,             \* handler -> number of add_message_to_history calls made
    peerGone,             \* handler -> the peer of its websocket was found gone
    closeCode,            \* handler -> code of the close frame the server sent (0: none)
    delivered,            \* handler -> sequence of messages its websocket received
    enqueued,             \* session_id -> number of enqueue_recipe_generation_task calls
    recipes,              \* session_id -> recipes persisted by recipe_service.create_recipe
    workerMsgs,           \* number of messages the worker has posted
    clientMsgs,           \* number of messages clients have posted
    redis_client,         \* task_id -> the hash stored under "task:<task_id>", for the keys that exist
    celery_states,        \* task_id -> state of the task in Celery, for the tasks sent
    revoked,              \* task_ids a revoke was broadcast for
    qcall,                \* caller -> frame of its RedisQueueService call
    completed_at          \* session_ids of the session documents with completed_at set

vars == <<active_connections, session_connections, sessions_collection,
          cooking_sessions_collection, calls,
          history_collection, nextSession, started, kind, pc, session_id,
          connection_id, is_fast_connect, messages, message_data, fanout,
          history_collection, appended, peerGone, closeCode, delivered, enqueued,
          recipes, workerMsgs, clientMsgs,
          redis_client, celery_states, revoked, qcall, completed_at>>

\* ------------------------------------------------------------- helpers
Restrict(f, S) == [x \in S |-> f[x]]

Get(f, k, default) == IF k \in DOMAIN f THEN f[k] ELSE default

\* uuid.uuid4() of connect: an identifier no other connection has.  Every
\* endpoint invocation registers at most once, so its own number is fresh.
uuid4(websocket) == websocket

Msg(type, ref) == [type |-> type, ref |-> ref, result |-> FALSE]

\* ----------------------------------------- WebSocketConnectionManager
\* The two dicts after connect's synchronous part (the code after accept).
connect(ac, sc, websocket, sid) ==
    LET cid == uuid4(websocket)
        sc1 == IF sid \notin DOMAIN sc THEN sc @@ (sid :> {}) ELSE sc
    IN  [active_connections  |-> (cid :> websocket) @@ ac,
         session_connections |-> [sc1 EXCEPT ![sid] = @ \cup {cid}],
         connection_id       |-> cid]

\* Faulty variant of disconnect that deletes without looking first.
disconnect_unguarded(ac, sc, cid, sid) ==
    IF cid \notin DOMAIN ac \/ sid \notin DOMAIN sc
    THEN [active_connections |-> ac, session_connections |-> sc, raised |-> TRUE]
    ELSE [active_connections  |-> Restrict(ac, DOMAIN ac \ {cid}),
          session_connections |->
              IF sc[sid] \ {cid} = {} THEN Restrict(sc, DOMAIN sc \ {sid})
              ELSE [sc EXCEPT ![sid] = @ \ {cid}],
          raised |-> FALSE]

\* Faulty variant of disconnect that forgets the session's set.
disconnect_keeps_member(ac, sc, cid, sid) ==
    [active_connections  |-> Restrict(ac, DOMAIN ac \ {cid}),
     session_connections |-> sc,
     raised |-> FALSE]

\* Faulty variant of disconnect that keeps an emptied set.
disconnect_keeps_empty(ac, sc, cid, sid) ==
    [active_connections  |-> Restrict(ac, DOMAIN ac \ {cid}),
     session_connections |->
         IF sid \in DOMAIN sc THEN [sc EXCEPT ![sid] = @ \ {cid}] ELSE sc,
     raised |-> FALSE]

\* The two dicts after disconnect(connection_id, session_id); raised tells
\* whether the call ended in an exception.
disconnect(ac, sc, cid, sid) ==
    LET ac1 == IF cid \in DOMAIN ac THEN Restrict(ac, DOMAIN ac \ {cid}) ELSE ac
        sc1 == IF sid \in DOMAIN sc
               THEN IF sc[sid] \ {cid} = {}
                    THEN Restrict(sc, DOMAIN sc \ {sid})
                    ELSE [sc EXCEPT ![sid] = @ \ {cid}]
               ELSE sc
    IN  [active_connections |-> ac1, session_connections |-> sc1, raised |-> FALSE]

\* The loop "for conn_id in disconnected_ids: self.disconnect(conn_id, session_id)".
RECURSIVE disconnect_all(_, _, _, _)
disconnect_all(ac, sc, ids, sid) ==
    IF ids = {} THEN [active_connections |-> ac, session_connections |-> sc, raised |-> FALSE]
    ELSE LET cid == CHOOSE c \in ids : TRUE
             r   == disconnect(ac, sc, cid, sid)
         IN  disconnect_all(r.active_connections, r.session_connections, ids \ {cid}, sid)

is_session_connected(sc, sid) == sid \in DOMAIN sc /\ sc[sid] # {}

get_connected_sessions(sc) == DOMAIN sc

\* ------------------------------------------- send_personal_message frame
\* st: "idle" (no call), "iter" (suspended in "await ws.send_json"),
\* "returned", "raised" (the call ended in an exception).
\* attached: connection_ids is the very set object stored in
\* session_connections[sid]; it is False when get() built a fresh set() and
\* after disconnect deleted the entry (the object then stays empty).
\* startSet, attempts, copies, interfered record the call for the properties.
IdleFrame ==
    [st |-> "idle", sid |-> NoSession, message |-> Msg("", <<>>),
     attached |-> FALSE, si_used |-> 0, visited |-> {},
     disconnected_ids |-> {}, result |-> FALSE,
     startSet |-> {}, interfered |-> FALSE,
     attempts |-> [c \in Handlers |-> 0], copies |-> [c \in Handlers |-> 0]]

\* The set object a frame iterates over, as it is now.
connection_ids(f, sc) ==
    IF f.attached /\ f.sid \in DOMAIN sc THEN sc[f.sid] ELSE {}

\* A change of session_connections seen from the suspended fan-outs: those
\* iterating over a set that changed are marked, and lose the set object when
\* its entry was deleted.
Notify(fo, sc, sc2) ==
    [g \in Handlers |->
        IF fo[g].st = "iter" /\ fo[g].attached
           /\ Get(sc, fo[g].sid, {}) # Get(sc2, fo[g].sid, {})
        THEN [fo[g] EXCEPT !.interfered = TRUE,
                           !.attached = (fo[g].sid \in DOMAIN sc2)]
        ELSE fo[g]]

\* ws.send_json on the websocket of handler ws raises when the server has sent
\* its close frame or the peer has gone away.  A peer may go away at any time;
\* that is decided when the server next uses the websocket.
SendOutcomes(ws) ==
    IF closeCode[ws] = 0 /\ ~peerGone[ws] THEN BOOLEAN ELSE {FALSE}

\* The websockets' logs and states after a send_json of m on ws that went ok or raised.
Deliver(dl, ws, m, ok) == IF ok THEN [dl EXCEPT ![ws] = Append(@, m)] ELSE dl

Gone(pg, ws, ok) == IF ok \/ closeCode[ws] # 0 THEN pg ELSE [pg EXCEPT ![ws] = TRUE]

\* One pass of the loop body for conn_id: the frame after "await ws.send_json".
Attempt(f, cid, ok) ==
    [f EXCEPT !.st = "iter",
              !.visited = @ \cup {cid},
              !.attempts[cid] = @ + 1,
              !.copies[cid] = IF ok THEN @ + 1 ELSE @,
              !.disconnected_ids = IF ok THEN @ ELSE @ \cup {cid}]

\* Where the caller goes on when its send_personal_message call returns.
AfterReturn(site, m, result) ==
    CASE site = "rg_established" -> "rg_log_established"
      [] site = "rg_error"       -> IF result THEN "rg_log_error" ELSE "rg_loop"
      [] site = "cel_broadcast"  ->
            IF m.type = "task_completed" /\ m.result THEN "cel_persist"
            ELSE IF m.type \in {"task_completed", "task_failed"} THEN "cel_delete"
            ELSE "cel_loop"
      [] site = "cel_all_done"   -> "cel_delete_first"
      [] site = "cel_error"      -> IF result THEN "cel_log_error" ELSE "cel_delete_return"
      [] site = "cook_status"    -> "cook_loop"

\* Faulty variant of the callers: no try statement around the call, the
\* coroutine ends where the call raised.
AfterRaise_handler_ends(site) == "done"

\* Faulty variant of the callers: the exception leaves send_response.
AfterRaise_propagates(site) ==
    IF site \in {"rg_established", "rg_error"} THEN "rg_fail" ELSE "cel_cleanup"

\* Where the caller goes on when the call raises: the except clause in scope.
AfterRaise(site) ==
    CASE site = "rg_established" -> "rg_fail"
      [] site = "rg_error"       -> "rg_loop"
      [] site = "cel_broadcast"  -> "cel_report"
      [] site = "cel_all_done"   -> "cel_error"
      [] site = "cel_error"      -> "cel_delete_return"
      [] site = "cook_status"    -> "cook_cleanup"

FanoutSites ==
    {"rg_established", "rg_error", "cel_broadcast", "cel_all_done", "cel_error",
     "cook_status"}

\* The message each call site passes to send_personal_message.
FanoutMessage(h) ==
    CASE pc[h] = "rg_established" -> Msg("connection_established", <<>>)
      [] pc[h] = "rg_error"       -> Msg("error", <<>>)
      [] pc[h] = "cel_broadcast"  -> message_data[h]
      [] pc[h] = "cel_all_done"   -> Msg("all_tasks_completed", <<>>)
      [] pc[h] = "cel_error"      -> Msg("error", <<>>)
      [] pc[h] = "cook_status"    -> Msg("status", <<>>)

\* Faulty variant of the return value: success whenever the call gets to its end.
fanout_result_always(ids) == TRUE

\* "return len(connection_ids) > 0".
fanout_result(ids) == Cardinality(ids) > 0

\* Faulty variant of the eviction loop: nothing is evicted.
evict_nothing(ac, sc, ids, sid) ==
    [active_connections |-> ac, session_connections |-> sc, raised |-> FALSE]

\* The eviction loop at the end of send_personal_message.
evict(ac, sc, ids, sid) == disconnect_all(ac, sc, ids, sid)

unchangedFanoutRest ==
    /\ UNCHANGED <<sessions_collection, cooking_sessions_collection, calls, 
                   history_collection, nextSession, started, kind, session_id, 
                   connection_id, is_fast_connect, messages, message_data, 
                   pendingPush, appended, closeCode, enqueued, recipes, 
                   workerMsgs, clientMsgs, redis_client, celery_states, revoked, 
                   qcall, completed_at>>

\* The loop is exhausted: evict the failed connections and return.
FanoutFinish(h, f) ==
    LET r   == evict(active_connections, session_connections, f.disconnected_ids, f.sid)
        f2  == [f EXCEPT !.attached = f.attached /\ f.sid \in DOMAIN r.session_connections]
        res == fanout_result(connection_ids(f2, r.session_connections))
    IN  /\ active_connections' = r.active_connections
        /\ session_connections' = r.session_connections
        /\ fanout' = [Notify(fanout, session_connections, r.session_connections)
                        EXCEPT ![h] = [f2 EXCEPT !.st = "returned", !.result = res]]
        /\ pc' = [pc EXCEPT ![h] = AfterReturn(pc[h], f.message, res)]
        /\ UNCHANGED <<delivered, peerGone>>

\* The next connection of the loop gets its send_json.
FanoutAttempt(h, f, cid) ==
    LET ws == active_connections[cid]
    IN  \E ok \in SendOutcomes(ws) :
        /\ fanout' = [fanout EXCEPT ![h] = Attempt(f, cid, ok)]
        /\ delivered' = Deliver(delivered, ws, f.message, ok)
        /\ peerGone' = Gone(peerGone, ws, ok)
        /\ UNCHANGED <<active_connections, session_connections, pc>>

\* next() on the set iterator, followed by the loop body or by the end of the
\* call.  Connections without a websocket in active_connections are passed
\* without an await.  Once the set was changed under the iterator with its
\* size unchanged, CPython goes on over the changed hash table: which members
\* it still yields, and whether it yields one again, depends on the table.
FanoutAdvance(h, f) ==
    LET ids == connection_ids(f, session_connections)
        withSocket == {c \in ids : c \in DOMAIN active_connections}
    IN  IF ~f.interfered
        THEN IF withSocket \ f.visited = {}
             THEN FanoutFinish(h, f)
             ELSE \E cid \in withSocket \ f.visited : FanoutAttempt(h, f, cid)
        ELSE \/ \E cid \in {c \in withSocket : f.attempts[c] < MaxAttempts} :
                    FanoutAttempt(h, f, cid)
             \/ FanoutFinish(h, f)

\* send_personal_message is called: lines 36-43 up to the first await.
send_personal_message_begin(h) ==
    /\ pc[h] \in FanoutSites
    /\ fanout[h].st # "iter"
    /\ LET sid == session_id[h]
           att == sid \in DOMAIN session_connections
           ids == Get(session_connections, sid, {})
           f   == [IdleFrame EXCEPT !.sid = sid, !.message = FanoutMessage(h),
                                    !.attached = att, !.si_used = Cardinality(ids),
                                    !.startSet = ids]
       IN  FanoutAdvance(h, f)
    /\ unchangedFanoutRest

\* The coroutine resumes after "await ws.send_json": the iterator's next()
\* raises RuntimeError when the set changed size, else the loop goes on.
send_personal_message_resume(h) ==
    /\ fanout[h].st = "iter"
    /\ LET f == fanout[h]
       IN  IF Cardinality(connection_ids(f, session_connections)) # f.si_used
           THEN /\ fanout' = [fanout EXCEPT ![h].st = "raised"]
                /\ pc' = [pc EXCEPT ![h] = AfterRaise(pc[h])]
                /\ UNCHANGED <<active_connections, session_connections, delivered, peerGone>>
           ELSE FanoutAdvance(h, f)
    /\ unchangedFanoutRest

\* ------------------------------------- MongoDBRecipeGenerationService
\* create_session: a session document with status "active" under a fresh
\* uuid4, and an empty history document.
create_session(sessions, history, n) ==
    [session_id |-> n + 1,
     sessions_collection |-> ((n + 1) :> "active") @@ sessions,
     history_collection  |-> ((n + 1) :> <<>>) @@ history]

\* Faulty variant of get_session: a document is found for every id.
get_session_finds_any(sessions, sid) == TRUE

get_session(sessions, sid) == sid \in DOMAIN sessions

\* Faulty variant of the history update: the message is put in front.
PushFront(history, sid, m) ==
    IF sid \in DOMAIN history THEN [history EXCEPT ![sid] = <<m>> \o @]
    ELSE (sid :> <<m>>) @@ history

\* update_one({"session_id": sid}, {"$push": {"messages": m}}, upsert=True).
PushMessage(history, sid, m) ==
    IF sid \in DOMAIN history THEN [history EXCEPT ![sid] = Append(@, m)]
    ELSE (sid :> <<m>>) @@ history

get_session_messages(history, sid) == Get(history, sid, <<>>)

\* delete_session: only the session document goes; the history stays.
delete_session(sessions, sid) == Restrict(sessions, DOMAIN sessions \ {sid})

\* The SessionHistoryMessage of the n-th add_message_to_history call of
\* handler h; message_id stands for its uuid4.
HistoryMessage(h, n, type) == [message_id |-> <<h, n>>, message_type |-> type]

\* add_message_to_history, called by handler h for its session: one atomic
\* update_one of MongoDB, taken at the moment MongoDB applies it.
AddMessage(h, type) ==
    /\ history_collection' =
           PushMessage(history_collection, session_id[h],
                       HistoryMessage(h, appended[h] + 1, type))
    /\ appended' = [appended EXCEPT ![h] = @ + 1]

\* The coroutine of handler h stands at position at.
Running(h, at) == pc[h] = at

\* The frame of a finished send_personal_message call is dropped.
Dropped(fo, h) == [fo EXCEPT ![h] = IdleFrame]

\* ---------------------------------------------------------- recipe_gen
\* Faulty variant of the finally clause: the disconnect entry is appended
\* whether or not the handler got as far as registering a connection.
finally_append_unguarded(history, cid, sid, m) == PushMessage(history, sid, m)

\* The finally clause of recipe_gen (lines 282-287) on the history: the
\* disconnect entry m is appended only if connection_id is among the locals.
finally_append(history, cid, sid, m) ==
    IF cid # NoConn THEN PushMessage(history, sid, m) ELSE history

\* The disconnect entry the finally clause of handler h appends.
DisconnectEntry(h) == HistoryMessage(h, appended[h] + 1, "system_response")

\* A client opens /recipe-gen: lines 139-181, token check and session
\* resolution.  tokenOk: deps.get_current_user accepts the token; sid: the
\* session_id query parameter (NoSession: omitted).
recipe_gen_open(h, tokenOk, sid) ==
    /\ h = started + 1
    /\ started' = h
    /\ kind' = [kind EXCEPT ![h] = "client"]
    /\ IF ~tokenOk
       THEN /\ closeCode' = [closeCode EXCEPT ![h] = 1008]
            /\ pc' = [pc EXCEPT ![h] = "done"]
            /\ history_collection' = finally_append(history_collection,
                   connection_id[h], NoSession, DisconnectEntry(h))
            /\ UNCHANGED <<sessions_collection, nextSession,
                           session_id, is_fast_connect>>
       ELSE IF sid # NoSession
       THEN /\ session_id' = [session_id EXCEPT ![h] = sid]
            /\ IF get_session(sessions_collection, sid)
               THEN /\ pc' = [pc EXCEPT ![h] = "rg_connect"]
                    /\ closeCode' = closeCode
                    /\ history_collection' = history_collection
               ELSE /\ pc' = [pc EXCEPT ![h] = "done"]
                    /\ closeCode' = [closeCode EXCEPT ![h] = 1008]
                    /\ history_collection' = finally_append(history_collection,
                           connection_id[h], sid, DisconnectEntry(h))
            /\ UNCHANGED <<sessions_collection, nextSession, is_fast_connect>>
       ELSE /\ nextSession < MaxSessions
            /\ LET r == create_session(sessions_collection, history_collection, nextSession)
               IN  /\ sessions_collection' = r.sessions_collection
                   /\ history_collection' = r.history_collection
                   /\ session_id' = [session_id EXCEPT ![h] = r.session_id]
            /\ nextSession' = nextSession + 1
            /\ is_fast_connect' = [is_fast_connect EXCEPT ![h] = TRUE]
            /\ pc' = [pc EXCEPT ![h] = "rg_connect"]
            /\ closeCode' = closeCode
    /\ UNCHANGED <<active_connections, session_connections, 
                   cooking_sessions_collection, calls, connection_id, messages, 
                   message_data, fanout, pendingPush, appended, peerGone, 
                   delivered, enqueued, recipes, workerMsgs, clientMsgs, 
                   redis_client, celery_states, revoked, qcall, completed_at>>

\* ws_manager.connect at line 184 or 323: accept, then register.
Register(h, next) ==
    LET r == connect(active_connections, session_connections, h, session_id[h])
    IN  /\ active_connections' = r.active_connections
        /\ session_connections' = r.session_connections
        /\ connection_id' = [connection_id EXCEPT ![h] = r.connection_id]
        /\ fanout' = Notify(fanout, session_connections, r.session_connections)
        /\ pc' = [pc EXCEPT ![h] = next]

rg_connect(h) ==
    /\ Running(h, "rg_connect")
    /\ Register(h, "rg_history_read")
    /\ UNCHANGED <<sessions_collection, cooking_sessions_collection, calls, 
                   history_collection, nextSession, started, kind, session_id, 
                   is_fast_connect, messages, message_data, pendingPush, 
                   appended, peerGone, closeCode, delivered, enqueued, recipes, 
                   workerMsgs, clientMsgs, redis_client, celery_states, revoked, 
                   qcall, completed_at>>

\* send_session_history, line 472: the history is read.
rg_history_read(h) ==
    /\ Running(h, "rg_history_read")
    /\ LET msgs == get_session_messages(history_collection, session_id[h])
       IN  /\ messages' = [messages EXCEPT ![h] = msgs]
           /\ pc' = [pc EXCEPT ![h] = IF msgs # <<>> THEN "rg_history_send"
                                      ELSE "rg_established"]
    /\ UNCHANGED <<active_connections, session_connections, sessions_collection, 
                   cooking_sessions_collection, calls, history_collection, 
                   nextSession, started, kind, session_id, connection_id, 
                   is_fast_connect, message_data, fanout, pendingPush, appended, 
                   peerGone, closeCode, delivered, enqueued, recipes, 
                   workerMsgs, clientMsgs, redis_client, celery_states, revoked, 
                   qcall, completed_at>>

\* send_session_history, line 484: the non-empty history goes to this
\* websocket alone; a failing send is logged.
rg_history_send(h) ==
    /\ Running(h, "rg_history_send")
    /\ \E ok \in SendOutcomes(h) :
           /\ delivered' = Deliver(delivered, h,
                  Msg("session_history", messages[h]), ok)
           /\ peerGone' = Gone(peerGone, h, ok)
    /\ messages' = [messages EXCEPT ![h] = <<>>]
    /\ pc' = [pc EXCEPT ![h] = "rg_established"]
    /\ UNCHANGED <<active_connections, session_connections, sessions_collection, 
                   cooking_sessions_collection, calls, history_collection, 
                   nextSession, started, kind, session_id, connection_id, 
                   is_fast_connect, message_data, fanout, pendingPush, appended, 
                   closeCode, enqueued, recipes, workerMsgs, clientMsgs, 
                   redis_client, celery_states, revoked, qcall, completed_at>>

\* Lines 206 and 246: the connection is logged in the history.
rg_log_established(h) ==
    /\ Running(h, "rg_log_established")
    /\ AddMessage(h, "system_response")
    /\ fanout' = Dropped(fanout, h)
    /\ pc' = [pc EXCEPT ![h] = IF is_fast_connect[h] THEN "rg_enqueue" ELSE "rg_loop"]
    /\ UNCHANGED <<active_connections, session_connections, sessions_collection, 
                   cooking_sessions_collection, calls, nextSession, started, 
                   kind, session_id, connection_id, is_fast_connect, messages, 
                   message_data, pendingPush, peerGone, closeCode, delivered, 
                   enqueued, recipes, workerMsgs, clientMsgs, redis_client, 
                   celery_states, revoked, qcall, completed_at>>

\* Line 215: enqueue_recipe_generation_task is called for the new session; it
\* returns the task id, or raises what Celery or Redis raised (lines 75-77 of
\* redis_queue_service.py), which leaves the try block at line 275.
rg_enqueue(h) ==
    /\ Running(h, "rg_enqueue")
    /\ enqueued' = [enqueued EXCEPT ![session_id[h]] = @ + 1]
    /\ \E raised \in BOOLEAN :
           pc' = [pc EXCEPT ![h] = IF raised THEN "rg_fail" ELSE "rg_log_started"]
    /\ UNCHANGED <<active_connections, session_connections, sessions_collection, 
                   cooking_sessions_collection, calls, history_collection, 
                   nextSession, started, kind, session_id, connection_id, 
                   is_fast_connect, messages, message_data, fanout, pendingPush, 
                   appended, peerGone, closeCode, delivered, recipes, 
                   workerMsgs, clientMsgs, redis_client, celery_states, revoked, 
                   qcall, completed_at>>

\* Line 218.
rg_log_started(h) ==
    /\ Running(h, "rg_log_started")
    /\ AddMessage(h, "system_response")
    /\ pc' = [pc EXCEPT ![h] = "rg_loop"]
    /\ UNCHANGED <<active_connections, session_connections, sessions_collection, 
                   cooking_sessions_collection, calls, nextSession, started, 
                   kind, session_id, connection_id, is_fast_connect, messages, 
                   message_data, fanout, pendingPush, peerGone, closeCode, 
                   delivered, enqueued, recipes, workerMsgs, clientMsgs, 
                   redis_client, celery_states, revoked, qcall, completed_at>>

\* The message loop, lines 251-271: receive_text raises WebSocketDisconnect
\* when the client is gone, or another exception, which line 275 catches;
\* text that is no JSON (or no valid envelope) is
\* answered through send_error_message; a valid message changes nothing.
rg_loop(h) ==
    /\ Running(h, "rg_loop")
    /\ fanout' = Dropped(fanout, h)
    /\ \/ /\ peerGone' = [peerGone EXCEPT ![h] = TRUE]
          /\ \E asDisconnect \in BOOLEAN :
                 pc' = [pc EXCEPT ![h] = IF asDisconnect THEN "rg_cleanup" ELSE "rg_fail"]
          /\ clientMsgs' = clientMsgs
       \/ /\ ~peerGone[h]
          /\ clientMsgs < MaxClientMsgs
          /\ clientMsgs' = clientMsgs + 1
          /\ peerGone' = peerGone
          /\ \E wellFormed \in BOOLEAN :
                 pc' = [pc EXCEPT ![h] = IF wellFormed THEN "rg_loop" ELSE "rg_error"]
    /\ UNCHANGED <<active_connections, session_connections, sessions_collection, 
                   cooking_sessions_collection, calls, history_collection, 
                   nextSession, started, kind, session_id, connection_id, 
                   is_fast_connect, messages, message_data, pendingPush, 
                   appended, closeCode, delivered, enqueued, recipes, 
                   workerMsgs, redis_client, celery_states, revoked, qcall, 
                   completed_at>>

\* send_response, line 498: the error that was sent is logged.
rg_log_error(h) ==
    /\ Running(h, "rg_log_error")
    /\ AddMessage(h, "system_response")
    /\ fanout' = Dropped(fanout, h)
    /\ pc' = [pc EXCEPT ![h] = "rg_loop"]
    /\ UNCHANGED <<active_connections, session_connections, sessions_collection, 
                   cooking_sessions_collection, calls, nextSession, started, 
                   kind, session_id, connection_id, is_fast_connect, messages, 
                   message_data, pendingPush, peerGone, closeCode, delivered, 
                   enqueued, recipes, workerMsgs, clientMsgs, redis_client, 
                   celery_states, revoked, qcall, completed_at>>

\* Faulty variant of the except clause: the exception is logged and the
\* handler goes on to its message loop.
rg_fail_resumes(h) ==
    /\ Running(h, "rg_fail")
    /\ fanout' = Dropped(fanout, h)
    /\ pc' = [pc EXCEPT ![h] = "rg_loop"]
    /\ UNCHANGED <<active_connections, session_connections, sessions_collection, 
                   cooking_sessions_collection, calls, history_collection, 
                   nextSession, started, kind, session_id, connection_id, 
                   is_fast_connect, messages, message_data, pendingPush, 
                   appended, peerGone, closeCode, delivered, enqueued, recipes, 
                   workerMsgs, clientMsgs, redis_client, celery_states, revoked, 
                   qcall, completed_at>>

\* Lines 275-280: an exception left the connect sequence or the message
\* loop; the socket is closed with 1011.
rg_fail(h) ==
    /\ Running(h, "rg_fail")
    /\ closeCode' = [closeCode EXCEPT ![h] = IF closeCode[h] = 0 THEN 1011 ELSE @]
    /\ fanout' = Dropped(fanout, h)
    /\ pc' = [pc EXCEPT ![h] = "rg_cleanup"]
    /\ UNCHANGED <<active_connections, session_connections, sessions_collection, 
                   cooking_sessions_collection, calls, history_collection, 
                   nextSession, started, kind, session_id, connection_id, 
                   is_fast_connect, messages, message_data, pendingPush, 
                   appended, peerGone, delivered, enqueued, recipes, workerMsgs, 
                   clientMsgs, redis_client, celery_states, revoked, qcall, 
                   completed_at>>

\* The finally clause at lines 284-287 and 461-464: unregister, then log; an
\* add_message_to_history that raises is logged at line 289 or 466 and goes no further.
Cleanup(h, ac, sc) ==
    LET r == disconnect(ac, sc, connection_id[h], session_id[h])
    IN  /\ active_connections' = r.active_connections
        /\ session_connections' = r.session_connections
        /\ fanout' = Dropped(Notify(fanout, session_connections, r.session_connections), h)
        /\ \/ AddMessage(h, "system_response")
           \/ /\ history_collection' = history_collection
              /\ appended' = [appended EXCEPT ![h] = @ + 1]
        /\ pc' = [pc EXCEPT ![h] = "done"]

\* Faulty variant of the client's teardown: the session document goes with
\* the connection.
rg_cleanup_deletes_session(h) ==
    /\ Running(h, "rg_cleanup")
    /\ Cleanup(h, active_connections, session_connections)
    /\ sessions_collection' = delete_session(sessions_collection, session_id[h])
    /\ UNCHANGED <<cooking_sessions_collection, calls, nextSession, started, 
                   kind, session_id, connection_id, is_fast_connect, messages, 
                   message_data, pendingPush, peerGone, closeCode, delivered, 
                   enqueued, recipes, workerMsgs, clientMsgs, redis_client, 
                   celery_states, revoked, qcall, completed_at>>

rg_cleanup(h) ==
    /\ Running(h, "rg_cleanup")
    /\ Cleanup(h, active_connections, session_connections)
    /\ UNCHANGED <<sessions_collection, cooking_sessions_collection, calls, 
                   nextSession, started, kind, session_id, connection_id, 
                   is_fast_connect, messages, message_data, pendingPush, 
                   peerGone, closeCode, delivered, enqueued, recipes, 
                   workerMsgs, clientMsgs, redis_client, celery_states, revoked, 
                   qcall, completed_at>>

\* --------------------------------------------------- recipe_gen_celery
WorkerMsg(type, n, result) == [type |-> type, ref |-> <<n>>, result |-> result]

WorkerTypes == {"task_progress", "task_completed", "task_failed"}

\* The worker opens /recipe-gen/celery: lines 304-320.
recipe_gen_celery_open(h, sid) ==
    /\ h = started + 1
    /\ started' = h
    /\ kind' = [kind EXCEPT ![h] = "worker"]
    /\ session_id' = [session_id EXCEPT ![h] = sid]
    /\ IF sid # NoSession /\ get_session(sessions_collection, sid)
       THEN /\ pc' = [pc EXCEPT ![h] = "cel_connect"]
            /\ closeCode' = closeCode
       ELSE /\ pc' = [pc EXCEPT ![h] = "done"]
            /\ closeCode' = [closeCode EXCEPT ![h] = 1008]
    /\ UNCHANGED <<active_connections, session_connections, sessions_collection, 
                   cooking_sessions_collection, calls, history_collection, 
                   nextSession, connection_id, is_fast_connect, messages, 
                   message_data, fanout, pendingPush, appended, peerGone, 
                   delivered, enqueued, recipes, workerMsgs, clientMsgs, 
                   redis_client, celery_states, revoked, qcall, completed_at>>

cel_connect(h) ==
    /\ Running(h, "cel_connect")
    /\ Register(h, "cel_loop")
    /\ UNCHANGED <<sessions_collection, cooking_sessions_collection, calls, 
                   history_collection, nextSession, started, kind, session_id, 
                   is_fast_connect, messages, message_data, pendingPush, 
                   appended, peerGone, closeCode, delivered, enqueued, recipes, 
                   workerMsgs, clientMsgs, redis_client, celery_states, revoked, 
                   qcall, completed_at>>

\* "await websocket.send_json(error)" on the worker's own websocket, lines
\* 451 and 454.  When it raises, the exception leaves the handler through
\* the finally clause, and through line 457 first when the server library
\* raises WebSocketDisconnect for it.
ReportToWorker(h) ==
    \E ok \in SendOutcomes(h) :
        /\ delivered' = Deliver(delivered, h, Msg("error", <<>>), ok)
        /\ peerGone' = Gone(peerGone, h, ok)
        /\ IF ok
           THEN pc' = [pc EXCEPT ![h] = "cel_loop"]
           ELSE \E asDisconnect \in BOOLEAN :
                    pc' = [pc EXCEPT ![h] = IF asDisconnect THEN "cel_cleanup_disconnect"
                                           ELSE "cel_cleanup"]

\* One turn of the receive loop, lines 329-342: WebSocketDisconnect when the
\* worker is gone; otherwise a message of the worker, which is logged in the
\* history when it is JSON and reported back when it is not.
cel_receive(h, budget) ==
    /\ Running(h, "cel_loop")
    /\ fanout' = Dropped(fanout, h)
    /\ \/ /\ peerGone' = [peerGone EXCEPT ![h] = TRUE]
          /\ pc' = [pc EXCEPT ![h] = "cel_cleanup_disconnect"]
          /\ UNCHANGED <<workerMsgs, message_data, history_collection, appended, delivered>>
       \/ /\ ~peerGone[h]
          /\ workerMsgs < budget
          /\ workerMsgs' = workerMsgs + 1
          /\ \/ \E type \in WorkerTypes, result \in BOOLEAN :
                  /\ result => type = "task_completed"
                  /\ message_data' = [message_data EXCEPT ![h] =
                                         WorkerMsg(type, workerMsgs + 1, result)]
                  /\ AddMessage(h, type)
                  /\ pc' = [pc EXCEPT ![h] = "cel_broadcast"]
                  /\ UNCHANGED <<delivered, peerGone>>
             \/ /\ ReportToWorker(h)
                /\ UNCHANGED <<message_data, history_collection, appended>>
    /\ UNCHANGED <<active_connections, session_connections, sessions_collection, 
                   cooking_sessions_collection, calls, nextSession, started, 
                   kind, session_id, connection_id, is_fast_connect, messages, 
                   pendingPush, closeCode, enqueued, recipes, clientMsgs, 
                   redis_client, celery_states, revoked, qcall, completed_at>>

cel_loop(h) == cel_receive(h, MaxWorkerMsgs)

\* Lines 452-454: the broadcast raised; the error is reported to the worker.
cel_report(h) ==
    /\ Running(h, "cel_report")
    /\ fanout' = Dropped(fanout, h)
    /\ ReportToWorker(h)
    /\ UNCHANGED <<active_connections, session_connections, sessions_collection, 
                   cooking_sessions_collection, calls, history_collection, 
                   nextSession, started, kind, session_id, connection_id, 
                   is_fast_connect, messages, message_data, pendingPush, 
                   appended, closeCode, enqueued, recipes, workerMsgs, 
                   clientMsgs, redis_client, celery_states, revoked, qcall, 
                   completed_at>>

\* Lines 355-414: the recipe and its records are stored, and the completion
\* is logged; an exception of recipe_service leads to line 437.
cel_persist(h) ==
    /\ Running(h, "cel_persist")
    /\ fanout' = Dropped(fanout, h)
    /\ \/ /\ recipes' = [recipes EXCEPT ![session_id[h]] = @ + 1]
          /\ AddMessage(h, "all_tasks_completed")
          /\ pc' = [pc EXCEPT ![h] = "cel_all_done"]
       \/ /\ pc' = [pc EXCEPT ![h] = "cel_error"]
          /\ UNCHANGED <<recipes, history_collection, appended>>
    /\ UNCHANGED <<active_connections, session_connections, sessions_collection, 
                   cooking_sessions_collection, calls, nextSession, started, 
                   kind, session_id, connection_id, is_fast_connect, messages, 
                   message_data, pendingPush, peerGone, closeCode, delivered, 
                   enqueued, workerMsgs, clientMsgs, redis_client, 
                   celery_states, revoked, qcall, completed_at>>

\* delete_session at line 435, 440, 443 or 447, and where the handler goes on.
DeleteSession(h, at, next) ==
    /\ Running(h, at)
    /\ sessions_collection' = delete_session(sessions_collection, session_id[h])
    /\ fanout' = Dropped(fanout, h)
    /\ pc' = [pc EXCEPT ![h] = next]
    /\ UNCHANGED <<active_connections, session_connections, 
                   cooking_sessions_collection, calls, history_collection, 
                   nextSession, started, kind, session_id, connection_id, 
                   is_fast_connect, messages, message_data, pendingPush, 
                   appended, peerGone, closeCode, delivered, enqueued, recipes, 
                   workerMsgs, clientMsgs, redis_client, celery_states, revoked, 
                   qcall, completed_at>>

cel_delete_first(h) == DeleteSession(h, "cel_delete_first", "cel_delete")

cel_delete(h) == DeleteSession(h, "cel_delete", "cel_loop")

cel_delete_return(h) == DeleteSession(h, "cel_delete_return", "cel_cleanup")

\* send_response, line 498, called from line 439.
cel_log_error(h) ==
    /\ Running(h, "cel_log_error")
    /\ AddMessage(h, "system_response")
    /\ fanout' = Dropped(fanout, h)
    /\ pc' = [pc EXCEPT ![h] = "cel_delete_return"]
    /\ UNCHANGED <<active_connections, session_connections, sessions_collection, 
                   cooking_sessions_collection, calls, nextSession, started, 
                   kind, session_id, connection_id, is_fast_connect, messages, 
                   message_data, pendingPush, peerGone, closeCode, delivered, 
                   enqueued, recipes, workerMsgs, clientMsgs, redis_client, 
                   celery_states, revoked, qcall, completed_at>>

\* Lines 455-464: WebSocketDisconnect unregisters at line 457, and the
\* finally clause unregisters again.
cel_cleanup_disconnect(h) ==
    /\ Running(h, "cel_cleanup_disconnect")
    /\ LET r == disconnect(active_connections, session_connections,
                           connection_id[h], session_id[h])
       IN  Cleanup(h, r.active_connections, r.session_connections)
    /\ UNCHANGED <<sessions_collection, cooking_sessions_collection, calls, 
                   nextSession, started, kind, session_id, connection_id, 
                   is_fast_connect, messages, message_data, pendingPush, 
                   peerGone, closeCode, delivered, enqueued, recipes, 
                   workerMsgs, clientMsgs, redis_client, celery_states, revoked, 
                   qcall, completed_at>>

cel_cleanup(h) ==
    /\ Running(h, "cel_cleanup")
    /\ Cleanup(h, active_connections, session_connections)
    /\ UNCHANGED <<sessions_collection, cooking_sessions_collection, calls, 
                   nextSession, started, kind, session_id, connection_id, 
                   is_fast_connect, messages, message_data, pendingPush, 
                   peerGone, closeCode, delivered, enqueued, recipes, 
                   workerMsgs, clientMsgs, redis_client, celery_states, revoked, 
                   qcall, completed_at>>

\* ---------------------------------------------------- cook_conversation
\* The key cook.py passes to disconnect: the websocket object, which is no
\* connection_id of active_connections.
WebSocketKey(websocket) == 0 - websocket

\* A client opens /cook/ws: lines 135-158, token check and a new cooking session.
cook_conversation_open(h, tokenOk) ==
    /\ h = started + 1
    /\ started' = h
    /\ kind' = [kind EXCEPT ![h] = "cook"]
    /\ IF ~tokenOk
       THEN /\ closeCode' = [closeCode EXCEPT ![h] = 1008]
            /\ pc' = [pc EXCEPT ![h] = "done"]
            /\ UNCHANGED <<cooking_sessions_collection, nextSession, session_id>>
       ELSE /\ nextSession < MaxSessions
            /\ nextSession' = nextSession + 1
            /\ cooking_sessions_collection' = cooking_sessions_collection \cup {nextSession + 1}
            /\ session_id' = [session_id EXCEPT ![h] = nextSession + 1]
            /\ pc' = [pc EXCEPT ![h] = "cook_connect"]
            /\ closeCode' = closeCode
    /\ UNCHANGED <<active_connections, session_connections, sessions_collection, 
                   calls, history_collection, connection_id, is_fast_connect, 
                   messages, message_data, fanout, pendingPush, appended, 
                   peerGone, delivered, enqueued, recipes, workerMsgs, 
                   clientMsgs, redis_client, celery_states, revoked, qcall, 
                   completed_at>>

cook_connect(h) ==
    /\ Running(h, "cook_connect")
    /\ Register(h, "cook_loop")
    /\ UNCHANGED <<sessions_collection, cooking_sessions_collection, calls, 
                   history_collection, nextSession, started, kind, session_id, 
                   is_fast_connect, messages, message_data, pendingPush, 
                   appended, peerGone, closeCode, delivered, enqueued, recipes, 
                   workerMsgs, clientMsgs, redis_client, celery_states, revoked, 
                   qcall, completed_at>>

\* One turn of the loop at lines 167-221: audio whose transcript is answered
\* with a status message, or a disconnect or error that ends the loop.
cook_loop(h) ==
    /\ Running(h, "cook_loop")
    /\ fanout' = Dropped(fanout, h)
    /\ \/ /\ peerGone' = [peerGone EXCEPT ![h] = TRUE]
          /\ pc' = [pc EXCEPT ![h] = "cook_cleanup"]
          /\ clientMsgs' = clientMsgs
       \/ /\ ~peerGone[h]
          /\ clientMsgs < MaxClientMsgs
          /\ clientMsgs' = clientMsgs + 1
          /\ peerGone' = peerGone
          /\ pc' = [pc EXCEPT ![h] = "cook_status"]
    /\ UNCHANGED <<active_connections, session_connections, sessions_collection, 
                   cooking_sessions_collection, calls, history_collection, 
                   nextSession, started, kind, session_id, connection_id, 
                   is_fast_connect, messages, message_data, pendingPush, 
                   appended, closeCode, delivered, enqueued, recipes, 
                   workerMsgs, redis_client, celery_states, revoked, qcall, 
                   completed_at>>

\* Lines 223-258: disconnect is called with the websocket in place of the
\* connection_id, the cooking session is deleted and the socket closed.
cook_cleanup(h) ==
    /\ Running(h, "cook_cleanup")
    /\ LET r == disconnect(active_connections, session_connections,
                           WebSocketKey(h), session_id[h])
       IN  /\ active_connections' = r.active_connections
           /\ session_connections' = r.session_connections
           /\ fanout' = Dropped(Notify(fanout, session_connections, r.session_connections), h)
    /\ cooking_sessions_collection' = cooking_sessions_collection \ {session_id[h]}
    /\ closeCode' = [closeCode EXCEPT ![h] = 1000]
    /\ pc' = [pc EXCEPT ![h] = "done"]
    /\ UNCHANGED <<sessions_collection, calls, history_collection, nextSession, 
                   started, kind, session_id, connection_id, is_fast_connect, 
                   messages, message_data, pendingPush, appended, peerGone, 
                   delivered, enqueued, recipes, workerMsgs, clientMsgs, 
                   redis_client, celery_states, revoked, qcall, completed_at>>

\* ------------------------------------------------- the session documents
SessionStatuses == {"active", "completed", "failed", "cancelled"}

\* update_session, lines 41-56: $set on the document of session_id, if there is one.
update_session(sessions, session_id_, update_data) ==
    IF session_id_ \in DOMAIN sessions
    THEN [sessions EXCEPT ![session_id_] = update_data.status]
    ELSE sessions

\* update_session_status, lines 58-68: the status is set, and completed_at
\* with it when the status is completed, failed or cancelled.
update_session_status(sessions, completed, session_id_, status) ==
    LET update_data == [status |-> status,
                        completed_at |-> status \in {"completed", "failed", "cancelled"}]
    IN  [sessions_collection |-> update_session(sessions, session_id_, update_data),
         completed_at |-> IF update_data.completed_at /\ session_id_ \in DOMAIN sessions
                          THEN completed \cup {session_id_}
                          ELSE completed]

\* ---------------------------------------------------- RedisQueueService
\* What a call has returned, or that it raised, or "" while it runs.
Returned(what, task_id, status) == [kind |-> what, task_id |-> task_id, status |-> status]

\* The frame of a caller's call: the method, the await it is suspended in,
\* its arguments and locals, and what its last call returned.
IdleCall ==
    [op |-> "idle", at |-> "idle", task_id |-> NoTask, session_id |-> NoSession,
     status |-> "", celery_status |-> "", ret |-> Returned("", NoTask, "")]

TheUser == 1

\* The hash enqueue stores at lines 58-71, as strings in Redis; ttl: expire was applied.
TaskHash(sid, status, ttl) ==
    [session_id |-> sid, user_id |-> TheUser, status |-> status, ttl |-> ttl]

CeleryStates == {"PENDING", "STARTED", "SUCCESS", "FAILURE", "RETRY", "REVOKED"}

\* AsyncResult(task_id).status: the state in the result backend, PENDING for
\* an id the backend knows nothing of.
AsyncResultStatus(cs, task_id) == Get(cs, task_id, "PENDING")

\* Lines 107-124: the status of the hash, overridden by the Celery state.
task_status(redis_status, celery_status) ==
    CASE celery_status = "PENDING" -> "queued"
      [] celery_status = "STARTED" -> "processing"
      [] celery_status = "SUCCESS" -> "completed"
      [] celery_status = "FAILURE" -> "failed"
      [] celery_status = "RETRY"   -> "retrying"
      [] celery_status = "REVOKED" -> "cancelled"
      [] OTHER -> redis_status

\* The call of caller c ends with ret.
Return(c, ret) == qcall' = [qcall EXCEPT ![c] = [IdleCall EXCEPT !.ret = ret]]

\* The call of caller c goes on to its next await.
Await(c, at, status) == qcall' = [qcall EXCEPT ![c].at = at, ![c].status = status]

\* enqueue_recipe_generation_task, lines 37-56: send_task hands the task to
\* the broker and returns its id, or raises and the call raises (line 77).
enqueue_recipe_generation_task(c, sid) ==
    /\ qcall[c].op = "idle"
    /\ \/ /\ Return(c, Returned("raised", NoTask, ""))
          /\ UNCHANGED celery_states
       \/ /\ Cardinality(DOMAIN celery_states) < MaxTasks
          /\ LET id == Cardinality(DOMAIN celery_states) + 1
             IN  /\ celery_states' = (id :> "PENDING") @@ celery_states
                 /\ qcall' = [qcall EXCEPT ![c] =
                        [IdleCall EXCEPT !.op = "enqueue", !.at = "hset",
                                         !.task_id = id, !.session_id = sid]]
    /\ UNCHANGED <<active_connections, session_connections, sessions_collection, 
                   cooking_sessions_collection, calls, history_collection, 
                   nextSession, started, kind, pc, session_id, connection_id, 
                   is_fast_connect, messages, message_data, fanout, pendingPush, 
                   appended, peerGone, closeCode, delivered, enqueued, recipes, 
                   workerMsgs, clientMsgs, redis_client, revoked, completed_at>>

\* Line 71: the hash is stored, or hset raises and the call raises.
enqueue_hset(c) ==
    /\ qcall[c].op = "enqueue" /\ qcall[c].at = "hset"
    /\ \/ /\ redis_client' = (qcall[c].task_id :>
                                 TaskHash(qcall[c].session_id, "queued", FALSE))
                             @@ redis_client
          /\ Await(c, "expire", "")
       \/ /\ Return(c, Returned("raised", qcall[c].task_id, ""))
          /\ UNCHANGED redis_client
    /\ UNCHANGED <<active_connections, session_connections, sessions_collection, 
                   cooking_sessions_collection, calls, history_collection, 
                   nextSession, started, kind, pc, session_id, connection_id, 
                   is_fast_connect, messages, message_data, fanout, pendingPush, 
                   appended, peerGone, closeCode, delivered, enqueued, recipes, 
                   workerMsgs, clientMsgs, celery_states, revoked, completed_at>>

\* Lines 72-75: the key gets its time to live and the task id is returned, or
\* expire raises and the call raises.
enqueue_expire(c) ==
    /\ qcall[c].op = "enqueue" /\ qcall[c].at = "expire"
    /\ LET id == qcall[c].task_id
       IN  \/ /\ redis_client' = IF id \in DOMAIN redis_client
                                 THEN [redis_client EXCEPT ![id].ttl = TRUE]
                                 ELSE redis_client
              /\ Return(c, Returned("task_id", id, ""))
           \/ /\ Return(c, Returned("raised", id, ""))
              /\ UNCHANGED redis_client
    /\ UNCHANGED <<active_connections, session_connections, sessions_collection, 
                   cooking_sessions_collection, calls, history_collection, 
                   nextSession, started, kind, pc, session_id, connection_id, 
                   is_fast_connect, messages, message_data, fanout, pendingPush, 
                   appended, peerGone, closeCode, delivered, enqueued, recipes, 
                   workerMsgs, clientMsgs, celery_states, revoked, completed_at>>

\* get_task_status, lines 83-88: hgetall; no hash, or an exception (line
\* 131), gives None.
get_task_status(c, task_id) ==
    /\ qcall[c].op = "idle"
    /\ \/ Return(c, Returned("None", task_id, ""))
       \/ /\ task_id \in DOMAIN redis_client
          /\ qcall' = [qcall EXCEPT ![c] =
                 [IdleCall EXCEPT !.op = "get_task_status", !.at = "celery",
                                  !.task_id = task_id,
                                  !.status = redis_client[task_id].status]]
    /\ UNCHANGED <<active_connections, session_connections, sessions_collection, 
                   cooking_sessions_collection, calls, history_collection, 
                   nextSession, started, kind, pc, session_id, connection_id, 
                   is_fast_connect, messages, message_data, fanout, pendingPush, 
                   appended, peerGone, closeCode, delivered, enqueued, recipes, 
                   workerMsgs, clientMsgs, redis_client, celery_states, revoked, 
                   completed_at>>

\* Lines 91-127: the Celery state is read and overrides the status; then
\* _update_redis_status is called.
get_task_status_celery(c) ==
    /\ qcall[c].op = "get_task_status" /\ qcall[c].at = "celery"
    /\ \/ LET celery_status == AsyncResultStatus(celery_states, qcall[c].task_id)
          IN  qcall' = [qcall EXCEPT
                  ![c].at = "exists",
                  ![c].celery_status = celery_status,
                  ![c].status = task_status(qcall[c].status, celery_status)]
       \/ Return(c, Returned("None", qcall[c].task_id, ""))
    /\ UNCHANGED <<active_connections, session_connections, sessions_collection, 
                   cooking_sessions_collection, calls, history_collection, 
                   nextSession, started, kind, pc, session_id, connection_id, 
                   is_fast_connect, messages, message_data, fanout, pendingPush, 
                   appended, peerGone, closeCode, delivered, enqueued, recipes, 
                   workerMsgs, clientMsgs, redis_client, celery_states, revoked, 
                   completed_at>>

\* update_task_status, lines 135-141, with the status its caller passes.
update_task_status(c, task_id, status) ==
    /\ qcall[c].op = "idle"
    /\ qcall' = [qcall EXCEPT ![c] =
           [IdleCall EXCEPT !.op = "update_task_status", !.at = "exists",
                            !.task_id = task_id, !.status = status]]
    /\ UNCHANGED <<active_connections, session_connections, sessions_collection, 
                   cooking_sessions_collection, calls, history_collection, 
                   nextSession, started, kind, pc, session_id, connection_id, 
                   is_fast_connect, messages, message_data, fanout, pendingPush, 
                   appended, peerGone, closeCode, delivered, enqueued, recipes, 
                   workerMsgs, clientMsgs, redis_client, celery_states, revoked, 
                   completed_at>>

\* cancel_task, lines 170-186: the revoke is broadcast to the workers, then
\* the hash is marked cancelled; an exception gives False.
cancel_task(c, task_id) ==
    /\ qcall[c].op = "idle"
    /\ \/ /\ revoked' = revoked \cup {task_id}
          /\ qcall' = [qcall EXCEPT ![c] =
                 [IdleCall EXCEPT !.op = "cancel_task", !.at = "exists",
                                  !.task_id = task_id, !.status = "cancelled"]]
       \/ /\ Return(c, Returned("False", task_id, ""))
          /\ UNCHANGED revoked
    /\ UNCHANGED <<active_connections, session_connections, sessions_collection, 
                   cooking_sessions_collection, calls, history_collection, 
                   nextSession, started, kind, pc, session_id, connection_id, 
                   is_fast_connect, messages, message_data, fanout, pendingPush, 
                   appended, peerGone, closeCode, delivered, enqueued, recipes, 
                   workerMsgs, clientMsgs, redis_client, celery_states, 
                   completed_at>>

\* What the method returns once _update_redis_status has returned updated:
\* get_task_status ignores it (line 127) and returns task_status.
AfterUpdate(f, updated) ==
    IF f.op = "get_task_status" THEN Returned("task_status", f.task_id, f.status)
    ELSE Returned(IF updated THEN "True" ELSE "False", f.task_id, "")

\* _update_redis_status, lines 146-151: exists; False when the key is not
\* there or exists raised (line 166).
update_redis_status_exists(c) ==
    /\ qcall[c].op \in {"get_task_status", "update_task_status", "cancel_task"}
    /\ qcall[c].at = "exists"
    /\ \/ /\ qcall[c].task_id \in DOMAIN redis_client
          /\ Await(c, "hset", qcall[c].status)
       \/ Return(c, AfterUpdate(qcall[c], FALSE))
    /\ UNCHANGED <<active_connections, session_connections, sessions_collection, 
                   cooking_sessions_collection, calls, history_collection, 
                   nextSession, started, kind, pc, session_id, connection_id, 
                   is_fast_connect, messages, message_data, fanout, pendingPush, 
                   appended, peerGone, closeCode, delivered, enqueued, recipes, 
                   workerMsgs, clientMsgs, redis_client, celery_states, revoked, 
                   completed_at>>

\* _update_redis_status, lines 153-164: hset writes the status (creating the
\* key when it is gone) and True is returned, or hset raised and False is.
update_redis_status_hset(c) ==
    /\ qcall[c].op \in {"get_task_status", "update_task_status", "cancel_task"}
    /\ qcall[c].at = "hset"
    /\ LET id == qcall[c].task_id
       IN  \/ /\ redis_client' =
                     IF id \in DOMAIN redis_client
                     THEN [redis_client EXCEPT ![id].status = qcall[c].status]
                     ELSE (id :> TaskHash(NoSession, qcall[c].status, FALSE))
                          @@ redis_client
              /\ Return(c, AfterUpdate(qcall[c], TRUE))
           \/ /\ Return(c, AfterUpdate(qcall[c], FALSE))
              /\ UNCHANGED redis_client
    /\ UNCHANGED <<active_connections, session_connections, sessions_collection, 
                   cooking_sessions_collection, calls, history_collection, 
                   nextSession, started, kind, pc, session_id, connection_id, 
                   is_fast_connect, messages, message_data, fanout, pendingPush, 
                   appended, peerGone, closeCode, delivered, enqueued, recipes, 
                   workerMsgs, clientMsgs, celery_states, revoked, completed_at>>

\* The Celery worker moves a task on; a revoked task that has not finished
\* becomes REVOKED when the worker gets to the revoke.
celery_worker(task_id) ==
    /\ task_id \in DOMAIN celery_states
    /\ LET st == celery_states[task_id]
       IN  \E next \in CeleryStates :
             /\ \/ st = "PENDING" /\ next = "STARTED" /\ task_id \notin revoked
                \/ st = "STARTED" /\ next \in {"SUCCESS", "FAILURE", "RETRY"}
                \/ st = "RETRY" /\ next = "STARTED"
                \/ st \in {"PENDING", "STARTED", "RETRY"} /\ task_id \in revoked
                   /\ next = "REVOKED"
             /\ celery_states' = [celery_states EXCEPT ![task_id] = next]
    /\ UNCHANGED <<active_connections, session_connections, sessions_collection, 
                   cooking_sessions_collection, calls, history_collection, 
                   nextSession, started, kind, pc, session_id, connection_id, 
                   is_fast_connect, messages, message_data, fanout, pendingPush, 
                   appended, peerGone, closeCode, delivered, enqueued, recipes, 
                   workerMsgs, clientMsgs, redis_client, revoked, qcall, 
                   completed_at>>

\* The time to live set at line 72 runs out: Redis drops the key.
redis_expire(task_id) ==
    /\ task_id \in DOMAIN redis_client
    /\ redis_client[task_id].ttl
    /\ redis_client' = Restrict(redis_client, DOMAIN redis_client \ {task_id})
    /\ UNCHANGED <<active_connections, session_connections, sessions_collection, 
                   cooking_sessions_collection, calls, history_collection, 
                   nextSession, started, kind, pc, session_id, connection_id, 
                   is_fast_connect, messages, message_data, fanout, pendingPush, 
                   appended, peerGone, closeCode, delivered, enqueued, recipes, 
                   workerMsgs, clientMsgs, celery_states, revoked, qcall, 
                   completed_at>>

UpdateStatuses == {"processing", "completed", "failed"}

\* ------------------------------------------------------- specification
Init ==
    /\ active_connections = <<>>
    /\ session_connections = <<>>
    /\ sessions_collection = <<>>
    /\ cooking_sessions_collection = {}
    /\ calls = <<>>
    /\ history_collection = <<>>
    /\ nextSession = 0
    /\ started = 0
    /\ kind = [h \in Handlers |-> "none"]
    /\ pc = [h \in Handlers |-> "idle"]
    /\ session_id = [h \in Handlers |-> NoSession]
    /\ connection_id = [h \in Handlers |-> NoConn]
    /\ is_fast_connect = [h \in Handlers |-> FALSE]
    /\ messages = [h \in Handlers |-> <<>>]
    /\ message_data = [h \in Handlers |-> Msg("", <<>>)]
    /\ fanout = [h \in Handlers |-> IdleFrame]
    /\ pendingPush = [h \in Handlers |-> <<>>]
    /\ appended = [h \in Handlers |-> 0]
    /\ peerGone = [h \in Handlers |-> FALSE]
    /\ closeCode = [h \in Handlers |-> 0]
    /\ delivered = [h \in Handlers |-> <<>>]
    /\ enqueued = [s \in SessionIds |-> 0]
    /\ recipes = [s \in SessionIds |-> 0]
    /\ workerMsgs = 0
    /\ clientMsgs = 0
    /\ redis_client = <<>>
    /\ celery_states = <<>>
    /\ revoked = {}
    /\ qcall = [c \in Callers |-> IdleCall]
    /\ completed_at = {}

Next ==
    \/ \E h \in 1..MainHandlers, tokenOk \in BOOLEAN, sid \in SessionIds \cup {NoSession} :
           recipe_gen_open(h, tokenOk, sid)
    \/ \E h \in Handlers : rg_connect(h)
    \/ \E h \in Handlers : rg_history_read(h)
    \/ \E h \in Handlers : rg_history_send(h)
    \/ \E h \in Handlers : rg_log_established(h)
    \/ \E h \in Handlers : rg_enqueue(h)
    \/ \E h \in Handlers : rg_log_started(h)
    \/ \E h \in Handlers : rg_loop(h)
    \/ \E h \in Handlers : rg_log_error(h)
    \/ \E h \in Handlers : rg_fail(h)
    \/ \E h \in Handlers : rg_cleanup(h)
    \/ \E h \in 1..MainHandlers, sid \in SessionIds \cup {NoSession} :
           recipe_gen_celery_open(h, sid)
    \/ \E h \in Handlers : cel_connect(h)
    \/ \E h \in Handlers : cel_loop(h)
    \/ \E h \in Handlers : cel_report(h)
    \/ \E h \in Handlers : cel_persist(h)
    \/ \E h \in Handlers : cel_delete_first(h)
    \/ \E h \in Handlers : cel_delete(h)
    \/ \E h \in Handlers : cel_delete_return(h)
    \/ \E h \in Handlers : cel_log_error(h)
    \/ \E h \in Handlers : cel_cleanup_disconnect(h)
    \/ \E h \in Handlers : cel_cleanup(h)
    \/ \E h \in 1..MainHandlers, tokenOk \in BOOLEAN : cook_conversation_open(h, tokenOk)
    \/ \E h \in Handlers : cook_connect(h)
    \/ \E h \in Handlers : cook_loop(h)
    \/ \E h \in Handlers : cook_cleanup(h)
    \/ \E h \in Handlers : send_personal_message_begin(h)
    \/ \E h \in Handlers : send_personal_message_resume(h)

Spec == Init /\ [][Next]_vars

NextQueue ==
    \/ \E c \in Callers, sid \in SessionIds : enqueue_recipe_generation_task(c, sid)
    \/ \E c \in Callers : enqueue_hset(c)
    \/ \E c \in Callers : enqueue_expire(c)
    \/ \E c \in Callers, id \in TaskIds : get_task_status(c, id)
    \/ \E c \in Callers : get_task_status_celery(c)
    \/ \E c \in Callers, id \in TaskIds, status \in UpdateStatuses :
           update_task_status(c, id, status)
    \/ \E c \in Callers, id \in TaskIds : cancel_task(c, id)
    \/ \E c \in Callers : update_redis_status_exists(c)
    \/ \E c \in Callers : update_redis_status_hset(c)
    \/ \E id \in TaskIds : celery_worker(id)
    \/ \E id \in TaskIds : redis_expire(id)

SpecQueue == Init /\ [][NextQueue]_vars

\* ------------------------------------------------------- one session, three parties
\* The deployment the recipe_gen docstring describes: one client opens a session,
\* and a Celery worker and further clients attach to that session by its id.
\* Handler 1 is the client that creates the session.
NextThree ==
    \/ recipe_gen_open(1, TRUE, NoSession)
    \/ pc[1] = "rg_loop" /\ recipe_gen_celery_open(2, 1)
    \/ /\ pc[1] = "rg_loop"
       /\ \/ recipe_gen_open(3, TRUE, 1)
          \/ recipe_gen_celery_open(3, 1)
    \/ \E h \in Handlers : rg_connect(h)
    \/ \E h \in Handlers : rg_history_read(h)
    \/ \E h \in Handlers : rg_history_send(h) /\ peerGone' = peerGone
    \/ \E h \in Handlers : rg_log_established(h)
    \/ \E h \in Handlers : rg_enqueue(h) /\ pc'[h] = "rg_log_started"
    \/ \E h \in Handlers : rg_log_started(h)
    \/ \E h \in Handlers : rg_fail(h)
    \/ \E h \in Handlers : rg_cleanup(h)
    \/ \E h \in Handlers : cel_connect(h)
    \/ \E h \in Handlers : cel_receive(h, MaxDeliveries) /\ pc'[h] = "cel_broadcast"
    \/ \E h \in Handlers : cel_report(h) /\ peerGone' = peerGone
    \/ \E h \in Handlers : cel_persist(h)
    \/ \E h \in Handlers : cel_delete_first(h)
    \/ \E h \in Handlers : cel_delete(h)
    \/ \E h \in Handlers : cel_delete_return(h)
    \/ \E h \in Handlers : cel_log_error(h)
    \/ \E h \in Handlers : send_personal_message_begin(h) /\ peerGone' = peerGone
    \/ \E h \in Handlers : send_personal_message_resume(h) /\ peerGone' = peerGone

SpecThree == Init /\ [][NextThree]_vars

\* -------------------------------------------- a client joins a running task
\* Handler 1 is the client that created the session and may leave, handler 2
\* the worker reporting progress, handler 3 a client that joins the session.
NextJoin ==
    \/ recipe_gen_open(1, TRUE, NoSession)
    \/ pc[1] = "rg_loop" /\ recipe_gen_celery_open(2, 1)
    \/ recipe_gen_open(3, TRUE, 1)
    \/ \E h \in Handlers : rg_connect(h)
    \/ \E h \in Handlers : rg_history_read(h)
    \/ \E h \in Handlers : rg_history_send(h) /\ peerGone' = peerGone
    \/ \E h \in Handlers : rg_log_established(h)
    \/ \E h \in Handlers : rg_enqueue(h) /\ pc'[h] = "rg_log_started"
    \/ \E h \in Handlers : rg_log_started(h)
    \/ rg_loop(1) /\ pc'[1] = "rg_cleanup"
    \/ \E h \in Handlers : rg_fail(h)
    \/ \E h \in Handlers : rg_cleanup(h)
    \/ \E h \in Handlers : cel_connect(h)
    \/ \E h \in Handlers :
           cel_loop(h) /\ pc'[h] = "cel_broadcast" /\ message_data'[h].type = "task_progress"
    \/ \E h \in Handlers : cel_report(h) /\ peerGone' = peerGone
    \/ \E h \in Handlers : send_personal_message_begin(h) /\ peerGone' = peerGone
    \/ \E h \in Handlers : send_personal_message_resume(h) /\ peerGone' = peerGone

SpecJoin == Init /\ [][NextJoin]_vars


\* ------------------------------------ the history store under its callers
\* The message_ids of the add_message_to_history calls that have returned.
ReturnedCalls ==
    {id \in DOMAIN calls :
        ~(pendingPush[id[1]] # <<>> /\ pendingPush[id[1]][2].message_id = id)}

\* A session is created (create_session, lines 17-34).
history_create_session ==
    /\ nextSession < MaxSessions
    /\ LET r == create_session(sessions_collection, history_collection, nextSession)
       IN  /\ sessions_collection' = r.sessions_collection
           /\ history_collection' = r.history_collection
    /\ nextSession' = nextSession + 1
    /\ UNCHANGED <<active_connections, session_connections, 
                   cooking_sessions_collection, calls, started, kind, pc, 
                   session_id, connection_id, is_fast_connect, messages, 
                   message_data, fanout, pendingPush, appended, peerGone, 
                   closeCode, delivered, enqueued, recipes, workerMsgs, 
                   clientMsgs, redis_client, celery_states, revoked, qcall, 
                   completed_at>>

\* Coroutine h calls add_message_to_history for session sid (lines 78-87): the
\* message gets its uuid4 and the update_one is sent; h is suspended.
add_message_to_history_call(h, sid) ==
    /\ pendingPush[h] = <<>>
    /\ appended[h] < MaxAppends
    /\ LET m == HistoryMessage(h, appended[h] + 1, "system_response")
       IN  /\ pendingPush' = [pendingPush EXCEPT ![h] = <<sid, m>>]
           /\ calls' = (m.message_id :> [session_id |-> sid, before |-> ReturnedCalls])
                           @@ calls
    /\ appended' = [appended EXCEPT ![h] = @ + 1]
    /\ UNCHANGED <<active_connections, session_connections, sessions_collection, 
                   cooking_sessions_collection, history_collection, nextSession, 
                   started, kind, pc, session_id, connection_id, 
                   is_fast_connect, messages, message_data, fanout, peerGone, 
                   closeCode, delivered, enqueued, recipes, workerMsgs, 
                   clientMsgs, redis_client, celery_states, revoked, qcall, 
                   completed_at>>

\* MongoDB applies the update of coroutine h, and the call returns (lines 87-96).
MongoPush(h) ==
    /\ pendingPush[h] # <<>>
    /\ history_collection' =
           PushMessage(history_collection, pendingPush[h][1], pendingPush[h][2])
    /\ pendingPush' = [pendingPush EXCEPT ![h] = <<>>]
    /\ UNCHANGED <<active_connections, session_connections, sessions_collection, 
                   cooking_sessions_collection, calls, nextSession, started, 
                   kind, pc, session_id, connection_id, is_fast_connect, 
                   messages, message_data, fanout, appended, peerGone, 
                   closeCode, delivered, enqueued, recipes, workerMsgs, 
                   clientMsgs, redis_client, celery_states, revoked, qcall, 
                   completed_at>>

\* Coroutine h reads the history back (get_session_messages, lines 113-116).
get_session_messages_call(h, sid) ==
    /\ pendingPush[h] = <<>>
    /\ messages' = [messages EXCEPT ![h] = get_session_messages(history_collection, sid)]
    /\ UNCHANGED <<active_connections, session_connections, sessions_collection, 
                   cooking_sessions_collection, calls, history_collection, 
                   nextSession, started, kind, pc, session_id, connection_id, 
                   is_fast_connect, message_data, fanout, pendingPush, appended, 
                   peerGone, closeCode, delivered, enqueued, recipes, 
                   workerMsgs, clientMsgs, redis_client, celery_states, revoked, 
                   qcall, completed_at>>

NextHistory ==
    \/ history_create_session
    \/ \E h \in 1..MainHandlers, sid \in DOMAIN sessions_collection :
           add_message_to_history_call(h, sid)
    \/ \E h \in 1..MainHandlers : MongoPush(h)
    \/ \E h \in 1..MainHandlers, sid \in DOMAIN sessions_collection :
           get_session_messages_call(h, sid)

SpecHistory == Init /\ [][NextHistory]_vars

\* ------------------------------------- the session store under one caller
\* update_session_status is called for a session with some status.
update_session_status_call(sid, status) ==
    /\ pendingPush[1] = <<>>
    /\ LET r == update_session_status(sessions_collection, completed_at, sid, status)
       IN  /\ sessions_collection' = r.sessions_collection
           /\ completed_at' = r.completed_at
    /\ UNCHANGED <<active_connections, session_connections, 
                   cooking_sessions_collection, calls, history_collection, 
                   nextSession, started, kind, pc, session_id, connection_id, 
                   is_fast_connect, messages, message_data, fanout, pendingPush, 
                   appended, peerGone, closeCode, delivered, enqueued, recipes, 
                   workerMsgs, clientMsgs, redis_client, celery_states, revoked, 
                   qcall>>

\* delete_session is called for a session.
delete_session_call(sid) ==
    /\ pendingPush[1] = <<>>
    /\ sessions_collection' = delete_session(sessions_collection, sid)
    /\ completed_at' = completed_at \ {sid}
    /\ UNCHANGED <<active_connections, session_connections, 
                   cooking_sessions_collection, calls, history_collection, 
                   nextSession, started, kind, pc, session_id, connection_id, 
                   is_fast_connect, messages, message_data, fanout, pendingPush, 
                   appended, peerGone, closeCode, delivered, enqueued, recipes, 
                   workerMsgs, clientMsgs, redis_client, celery_states, revoked, 
                   qcall>>

NextSessions ==
    \/ history_create_session
    \/ \E sid \in SessionIds, status \in SessionStatuses :
           update_session_status_call(sid, status)
    \/ \E sid \in DOMAIN sessions_collection : add_message_to_history_call(1, sid)
    \/ MongoPush(1)
    \/ \E sid \in SessionIds : get_session_messages_call(1, sid)
    \/ \E sid \in SessionIds : delete_session_call(sid)

SpecSessions == Init /\ [][NextSessions]_vars


\* ------------------------------------------------------------ properties
\* The sessions whose connection set holds cid.
SessionsOf(cid) == {s \in DOMAIN session_connections : cid \in session_connections[s]}

\* C1: every connection id of active_connections is in exactly one set of
\* session_connections, and every member of a set is a key of active_connections.
C1_RegistrationInvariant ==
    /\ \A cid \in DOMAIN active_connections : Cardinality(SessionsOf(cid)) = 1
    /\ \A s \in DOMAIN session_connections :
           session_connections[s] \subseteq DOMAIN active_connections

\* A session still holds one connection after another connection of it was
\* registered and unregistered.
C1_Witness ==
    \E h \in Handlers, g \in Handlers :
        /\ pc[h] = "done"
        /\ connection_id[h] # NoConn
        /\ connection_id[h] \notin DOMAIN active_connections
        /\ session_id[g] = session_id[h]
        /\ connection_id[g] \in DOMAIN active_connections
        /\ SessionsOf(connection_id[g]) = {session_id[h]}

\* C9: no key of session_connections maps to an empty set, so
\* get_connected_sessions lists exactly the sessions that is_session_connected accepts.
C9_NoEmptySet ==
    /\ \A s \in DOMAIN session_connections : session_connections[s] # {}
    /\ get_connected_sessions(session_connections)
           = {s \in SessionIds : is_session_connected(session_connections, s)}

\* The last connection of a session has been unregistered while another
\* session is still connected.
C9_Witness ==
    /\ DOMAIN session_connections # {}
    /\ \E h \in Handlers :
           /\ pc[h] = "done"
           /\ connection_id[h] # NoConn
           /\ session_id[h] \notin DOMAIN session_connections

\* C7: a second disconnect with the same arguments changes nothing and raises
\* nothing, whatever the registry holds, also for a connection already evicted.
C7_IdempotentDisconnect ==
    \A cid \in Handlers, sid \in SessionIds :
        LET r1 == disconnect(active_connections, session_connections, cid, sid)
            r2 == disconnect(r1.active_connections, r1.session_connections, cid, sid)
        IN  /\ ~r1.raised
            /\ ~r2.raised
            /\ r2.active_connections = r1.active_connections
            /\ r2.session_connections = r1.session_connections

\* The worker's handler is about to unregister twice (lines 457 and 462) a
\* connection that a fan-out has evicted already, while its session still has
\* another connection.
C7_Witness ==
    \E h \in Handlers :
        /\ pc[h] = "cel_cleanup_disconnect"
        /\ connection_id[h] \notin DOMAIN active_connections
        /\ session_id[h] \in DOMAIN session_connections


\* Handler h calls send_personal_message in this step.
CallBegins(h) ==
    /\ pc[h] \in FanoutSites
    /\ fanout[h].st # "iter"
    /\ (fanout'[h] # fanout[h] \/ pc'[h] # pc[h])

\* The send_personal_message call of handler h returns in this step.
CallReturns(h) ==
    /\ \/ fanout[h].st = "iter"
       \/ CallBegins(h)
    /\ fanout'[h].st = "returned"

\* C8: a send_personal_message call for a session with no registered
\* connection returns False, attempts no delivery and leaves both dicts as they are.
C8_NoBroadcastToEmpty ==
    [][\A h \in Handlers :
        (CallBegins(h) /\ Get(session_connections, session_id[h], {}) = {})
        => /\ fanout'[h].st = "returned"
           /\ ~fanout'[h].result
           /\ \A cid \in Handlers : fanout'[h].attempts[cid] = 0
           /\ delivered' = delivered
           /\ active_connections' = active_connections
           /\ session_connections' = session_connections]_vars

\* A call for a session without connections has returned, while another
\* session has a connection that could have been sent to.
C8_Witness ==
    \E h \in Handlers :
        /\ fanout[h].st = "returned"
        /\ fanout[h].startSet = {}
        /\ ~fanout[h].result
        /\ DOMAIN active_connections # {}

\* C2: a call over N connections of which M < N raise on send_json, with no
\* other coroutine changing the session's set meanwhile, returns True, removes
\* exactly the M failing connections from both dicts, and has sent each of the
\* other N - M connections exactly one copy.
C2_PartialFailure ==
    [][\A h \in Handlers :
        LET f == fanout'[h]
            N == f.startSet
            M == f.disconnected_ids
        IN  (CallReturns(h) /\ ~f.interfered /\ M # N)
            => /\ f.result
               /\ M \subseteq N
               /\ DOMAIN active_connections' = DOMAIN active_connections \ M
               /\ f.sid \in DOMAIN session_connections'
               /\ session_connections'[f.sid] = N \ M
               /\ \A s \in DOMAIN session_connections' \ {f.sid} :
                      /\ s \in DOMAIN session_connections
                      /\ session_connections'[s] = session_connections[s]
               /\ \A cid \in N \ M : f.copies[cid] = 1 /\ f.attempts[cid] = 1
               /\ \A cid \in M : f.copies[cid] = 0]_vars

\* A call over two connections has returned after one of them failed.
C2_Witness ==
    \E h \in Handlers :
        /\ fanout[h].st = "returned"
        /\ ~fanout[h].interfered
        /\ Cardinality(fanout[h].startSet) >= 2
        /\ fanout[h].disconnected_ids # {}
        /\ fanout[h].disconnected_ids # fanout[h].startSet
        /\ fanout[h].result

\* C3: send_personal_message returns True exactly when the session had a
\* registered connection as the call began.
C3_TrueIffHadConnections ==
    \A h \in Handlers :
        fanout[h].st = "returned" => (fanout[h].result <=> fanout[h].startSet # {})

\* C4: a call suspended in a send never ends in an error, and every connection
\* registered under the session both as the call began and as it ends has got
\* exactly one delivery attempt.
C4_NoHalfUpdatedSet ==
    [][\A h \in Handlers :
        fanout[h].st = "iter"
        => /\ fanout'[h].st # "raised"
           /\ fanout'[h].st = "returned"
              => \A cid \in fanout'[h].startSet \cap
                            Get(session_connections', fanout'[h].sid, {}) :
                     fanout'[h].attempts[cid] = 1]_vars

\* The connect sequence of handler h is over.
ConnectSequenceOver(h) ==
    pc[h] \in {"rg_loop", "rg_error", "rg_log_error", "rg_cleanup", "done"}

\* C5: the client that created a session has caused exactly one enqueue call
\* for it once its connect sequence is over, and no session ever has more than one.
C5_EnqueueOnce ==
    /\ \A s \in SessionIds : enqueued[s] <= 1
    /\ \A h \in Handlers :
           (kind[h] = "client" /\ is_fast_connect[h] /\ ConnectSequenceOver(h))
           => enqueued[session_id[h]] = 1

\* C6: nothing reaches the websocket of a reconnecting client before its
\* session_history replay.
C6_ReplayComesFirst ==
    \A h \in Handlers :
        (kind[h] = "client" /\ ~is_fast_connect[h]
            /\ pc[h] \in {"rg_history_read", "rg_history_send"})
        => delivered[h] = <<>>

\* The number of times the message of call id occurs in the list seq.
Occurrences(seq, id) == Cardinality({i \in DOMAIN seq : seq[i].message_id = id})

\* The messages of calls that returned before others began keep that order in seq.
CausallyOrdered(seq) ==
    \A i \in DOMAIN seq, j \in DOMAIN seq :
        seq[i].message_id \in calls[seq[j].message_id].before => i < j

\* C10: in a session's history, as stored and as read back by
\* get_session_messages, the message of a call that returned before another
\* call for the session began precedes that call's message; the message of every
\* returned call is there exactly once, in its own session only, also when the
\* calls of several callers overlap.
C10_AppendOrder ==
    /\ \A s \in DOMAIN history_collection :
           /\ CausallyOrdered(get_session_messages(history_collection, s))
           /\ \A id \in DOMAIN calls :
                  Occurrences(get_session_messages(history_collection, s), id)
                      = IF id \in ReturnedCalls /\ calls[id].session_id = s THEN 1 ELSE 0
    /\ \A h \in Handlers :
           /\ CausallyOrdered(messages[h])
           /\ \A id \in DOMAIN calls : Occurrences(messages[h], id) <= 1

\* A caller has read back a history of three messages in which two calls of
\* different callers overlapped and a third call began after one of another
\* caller had returned.
C10_Witness ==
    \E h \in Handlers :
        /\ Len(messages[h]) >= 3
        /\ \E i \in DOMAIN messages[h], j \in DOMAIN messages[h] :
               LET a == messages[h][i].message_id
                   b == messages[h][j].message_id
               IN  /\ a # b
                   /\ a \notin calls[b].before
                   /\ b \notin calls[a].before
        /\ \E i \in DOMAIN messages[h], j \in DOMAIN messages[h] :
               LET a == messages[h][i].message_id
                   b == messages[h][j].message_id
               IN  /\ a[1] # b[1]
                   /\ a \in calls[b].before

\* C11: once the task of a new session is enqueued, the client that created
\* the session over a working websocket has been sent a session_history
\* message with an empty list and then connection_established, after the
\* session was created and the connection registered.
C11_ConnectSequence ==
    \A h \in Handlers :
        (kind[h] = "client" /\ is_fast_connect[h] /\ enqueued[session_id[h]] > 0
            /\ ~peerGone[h] /\ closeCode[h] = 0)
        => /\ session_id[h] # NoSession
           /\ connection_id[h] # NoConn
           /\ Len(delivered[h]) >= 2
           /\ delivered[h][1] = Msg("session_history", <<>>)
           /\ delivered[h][2].type = "connection_established"

\* C12: the teardown of a recipe_gen client removes its connection from both
\* dicts and leaves the session documents as they are, also when the
\* connection was the last one of its session.
C12_DisconnectKeepsSession ==
    [][\A h \in Handlers :
        (kind[h] = "client" /\ pc[h] = "rg_cleanup" /\ pc'[h] = "done")
        => /\ connection_id[h] \notin DOMAIN active_connections'
           /\ \A s \in DOMAIN session_connections' :
                  connection_id[h] \notin session_connections'[s]
           /\ sessions_collection' = sessions_collection]_vars

\* The client that created a session has disconnected after its task was
\* enqueued; it was the last connection, and the session document is still
\* there with status "active".
C12_Witness ==
    \E h \in Handlers :
        /\ kind[h] = "client"
        /\ pc[h] = "done"
        /\ connection_id[h] # NoConn
        /\ enqueued[session_id[h]] = 1
        /\ session_id[h] \notin DOMAIN session_connections
        /\ session_id[h] \in DOMAIN sessions_collection
        /\ sessions_collection[session_id[h]] = "active"

\* The connections of session s that belong to recipe_gen clients.
ClientConnections(s) ==
    {cid \in Get(session_connections, s, {}) :
        cid \in DOMAIN active_connections /\ kind[active_connections[cid]] = "client"}

\* C13: when the worker broadcasts task_completed for a session whose task
\* was enqueued and whose client connections have all gone after a client
\* disconnect, the call finds no connection: it returns False at once and
\* nothing is sent.
C13_CompletionFindsNoConnection ==
    [][\A h \in Handlers :
        (/\ CallBegins(h)
         /\ pc[h] = "cel_broadcast"
         /\ message_data[h].type = "task_completed"
         /\ ClientConnections(session_id[h]) = {}
         /\ enqueued[session_id[h]] = 1
         /\ \E g \in Handlers : /\ kind[g] = "client"
                                /\ session_id[g] = session_id[h]
                                /\ connection_id[g] # NoConn
                                /\ closeCode[g] = 0
                                /\ pc[g] = "done")
        => /\ fanout'[h].st = "returned"
           /\ ~fanout'[h].result
           /\ delivered' = delivered]_vars

\* Handler h opens /recipe-gen in this step.
ClientOpens(h) == kind[h] = "none" /\ kind'[h] = "client"

\* Nothing of the registry, the stores or the queue changes in this step.
NothingAllocated ==
    /\ active_connections' = active_connections
    /\ session_connections' = session_connections
    /\ sessions_collection' = sessions_collection
    /\ history_collection' = history_collection
    /\ nextSession' = nextSession
    /\ enqueued' = enqueued

\* Handler h has ended with close code 1008 and owns nothing.
Rejected(h) ==
    /\ closeCode'[h] = 1008
    /\ pc'[h] = "done"
    /\ connection_id'[h] = NoConn
    /\ \A cid \in DOMAIN active_connections' : active_connections'[cid] # h
    /\ appended'[h] = 0

\* C14: a recipe_gen connection whose token is missing or not accepted is
\* closed with 1008; no connection is registered, no session created, no
\* history entry appended and no task enqueued, then or later.
C14_AuthFailure ==
    [][\A h \in Handlers :
        /\ (ClientOpens(h) /\ session_id'[h] = NoSession /\ ~is_fast_connect'[h])
           => Rejected(h) /\ NothingAllocated
        /\ (kind'[h] = "client" /\ closeCode'[h] = 1008 /\ session_id'[h] = NoSession)
           => Rejected(h)]_vars

\* A connection has been refused for its token while another client is
\* registered under a session.
C14_Witness ==
    \E h \in Handlers :
        /\ kind[h] = "client"
        /\ closeCode[h] = 1008
        /\ session_id[h] = NoSession
        /\ pc[h] = "done"
        /\ DOMAIN active_connections # {}

\* C15: a recipe_gen connection with an accepted token and a session id that
\* has no session document is closed with 1008; no connection is registered,
\* no session created, and no history document created or extended, the
\* finally clause included.
C15_UnknownSession ==
    [][\A h \in Handlers :
        /\ (/\ ClientOpens(h)
            /\ session_id'[h] # NoSession
            /\ ~is_fast_connect'[h]
            /\ session_id'[h] \notin DOMAIN sessions_collection)
           => Rejected(h) /\ NothingAllocated
        /\ (kind'[h] = "client" /\ closeCode'[h] = 1008 /\ session_id'[h] # NoSession)
           => Rejected(h)]_vars

\* A connection has been refused for a session id no document has, while a
\* session of another id exists and has a registered connection.
C15_Witness ==
    \E h \in Handlers :
        /\ kind[h] = "client"
        /\ closeCode[h] = 1008
        /\ session_id[h] # NoSession
        /\ session_id[h] \notin DOMAIN sessions_collection
        /\ pc[h] = "done"
        /\ DOMAIN sessions_collection # {}
        /\ DOMAIN active_connections # {}

\* The positions of the finally clauses of recipe_gen and recipe_gen_celery.
TeardownPositions == {"rg_cleanup", "cel_cleanup", "cel_cleanup_disconnect"}

\* C16: the handler of a registered connection of recipe_gen or
\* recipe_gen_celery ends only through its finally clause, which every
\* exception path leads to; the clause removes the connection from both dicts
\* and calls add_message_to_history once, and the handler ends whether or not
\* that call raised.
C16_GuaranteedTeardown ==
    [][\A h \in Handlers :
        (kind[h] \in {"client", "worker"} /\ connection_id[h] # NoConn)
        => /\ pc[h] = "rg_fail" => pc'[h] \in {"rg_fail", "rg_cleanup"}
           /\ pc[h] \in TeardownPositions => pc'[h] \in {pc[h], "done"}
           /\ (pc[h] # "done" /\ pc'[h] = "done")
              => /\ pc[h] \in TeardownPositions
                 /\ connection_id[h] \notin DOMAIN active_connections'
                 /\ \A s \in DOMAIN session_connections' :
                        connection_id[h] \notin session_connections'[s]
                 /\ appended'[h] = appended[h] + 1
                 /\ closeCode'[h] = closeCode[h]]_vars

\* A client handler has ended after an exception closed its socket with 1011:
\* its connection is out of the registry, and its last add_message_to_history
\* call, the one of the finally clause, raised and left no entry.
C16_Witness ==
    \E h \in Handlers :
        /\ kind[h] = "client"
        /\ pc[h] = "done"
        /\ closeCode[h] = 1011
        /\ connection_id[h] # NoConn
        /\ connection_id[h] \notin DOMAIN active_connections
        /\ Occurrences(get_session_messages(history_collection, session_id[h]),
                       <<h, appended[h]>>) = 0

\* The worker's last message was task_completed or task_failed.
TerminalEvent(h) ==
    kind[h] = "worker" /\ message_data[h].type \in {"task_completed", "task_failed"}

\* C17: when recipe_gen_celery is back at receive_text after a task_completed
\* or task_failed message, the session document is gone.
C17_TerminalEventDeletesSession ==
    \A h \in Handlers :
        (TerminalEvent(h) /\ pc[h] = "cel_loop")
        => session_id[h] \notin DOMAIN sessions_collection

\* C18: when a terminal event has been handled and the session document
\* deleted, every client connection of the session that was sent the event
\* is closed and out of the registry.
C18_TerminalEventClearsRegistry ==
    \A h \in Handlers :
        (/\ TerminalEvent(h)
         /\ pc[h] \in {"cel_loop", "done"}
         /\ session_id[h] \notin DOMAIN sessions_collection)
        => \A g \in Handlers :
               (/\ kind[g] = "client"
                /\ session_id[g] = session_id[h]
                /\ \E i \in DOMAIN delivered[g] : delivered[g][i] = message_data[h])
               => /\ connection_id[g] \notin DOMAIN active_connections
                  /\ closeCode[g] # 0 \/ peerGone[g]

\* C19: text that is no valid message makes recipe_gen broadcast an error
\* message and go back to receive_text, also when the broadcast raises; the
\* socket is not closed, and the connection stays registered unless a send on
\* its own websocket raised.
C19_MalformedInputRecoverable ==
    [][\A h \in Handlers :
        /\ (CallBegins(h) /\ pc[h] = "rg_error") => fanout'[h].message.type = "error"
        /\ (pc[h] = "rg_error" /\ pc'[h] # "rg_error")
           => /\ pc'[h] \in {"rg_log_error", "rg_loop"}
              /\ closeCode'[h] = closeCode[h]
              /\ connection_id[h] \in DOMAIN active_connections
                 => \/ connection_id[h] \in DOMAIN active_connections'
                    \/ connection_id[h] \in fanout'[h].disconnected_ids
        /\ pc[h] = "rg_log_error" => pc'[h] \in {"rg_log_error", "rg_loop"}]_vars

\* A client is back at receive_text with the error message on its socket,
\* registered and not closed.
C19_Witness ==
    \E h \in Handlers :
        /\ kind[h] = "client"
        /\ pc[h] = "rg_loop"
        /\ closeCode[h] = 0
        /\ connection_id[h] \in DOMAIN active_connections
        /\ \E i \in DOMAIN delivered[h] : delivered[h][i].type = "error"

\* C20: a well-formed message of a recipe_gen client (the handler stays at
\* receive_text, no error is sent) adds one entry to some session's history.
C20_ClientMessageToHistory ==
    [][(clientMsgs' = clientMsgs + 1 /\ pc' = pc)
        => \E s \in DOMAIN history_collection' :
               Len(history_collection'[s])
                   = Len(get_session_messages(history_collection, s)) + 1]_vars

\* The worker's handling of its last message is over: the handler is back at
\* receive_text or has ended.
HandlingOver(w) == pc[w] \in {"cel_loop", "cel_cleanup", "cel_cleanup_disconnect", "done"}

\* C21: once a worker has handled task_completed or task_failed for a
\* session, a client that opens recipe_gen with that session's id is accepted
\* as a reconnection: it goes on to register and to replay the history, it is
\* not closed, and it is no new session, so no task is enqueued for it.
C21_ReconnectAfterTerminal ==
    [][\A h \in Handlers, w \in Handlers :
        (TerminalEvent(w) /\ HandlingOver(w)
            /\ pc[h] = "idle" /\ kind'[h] = "client"
            /\ session_id'[h] = session_id[w])
        => /\ pc'[h] = "rg_connect"
           /\ closeCode'[h] = 0
           /\ ~is_fast_connect'[h]]_vars

\* enqueue_recipe_generation_task raised for the session handler h created:
\* the handler left line 215 through the except clause, one history entry
\* (line 206) behind it and the one of line 218 never written.
EnqueueRaised(h) ==
    /\ kind[h] = "client"
    /\ is_fast_connect[h]
    /\ enqueued[session_id[h]] = 1
    /\ \/ pc[h] \in {"rg_fail", "rg_cleanup"} /\ appended[h] = 1
       \/ pc[h] = "done" /\ appended[h] = 2

\* C22: when the enqueue call of a new session raises, the handler goes from
\* line 215 through the except clause to the finally clause and ends: it
\* never enters the message loop, the socket is closed with 1011, the
\* connection is out of the registry when the handler has ended, and none of
\* these steps touches the session document, whose status is still active.
C22_EnqueueFailureAborts ==
    [][\A h \in Handlers :
        /\ (pc[h] = "rg_enqueue" /\ pc'[h] # "rg_enqueue")
           => pc'[h] \in {"rg_log_started", "rg_fail"}
        /\ EnqueueRaised(h)
           => /\ pc[h] = "rg_fail"
                 => /\ pc'[h] \in {"rg_fail", "rg_cleanup"}
                    /\ pc'[h] = "rg_cleanup" => closeCode'[h] = 1011
              /\ pc[h] = "rg_cleanup"
                 => /\ pc'[h] \in {"rg_cleanup", "done"}
                    /\ closeCode'[h] = 1011
              /\ pc[h] = "done"
                 => /\ pc'[h] = "done"
                    /\ closeCode[h] = 1011
                    /\ connection_id[h] \notin DOMAIN active_connections
                    /\ SessionsOf(connection_id[h]) = {}
              /\ pc'[h] # pc[h] => sessions_collection' = sessions_collection
              /\ session_id[h] \in DOMAIN sessions_collection
                 => sessions_collection[session_id[h]] = "active"]_vars

\* The enqueue call of a new session raised and the handler has ended: socket
\* closed with 1011, connection unregistered, session still stored as active.
C22_Witness ==
    \E h \in Handlers :
        /\ EnqueueRaised(h)
        /\ pc[h] = "done"
        /\ closeCode[h] = 1011
        /\ connection_id[h] # NoConn
        /\ connection_id[h] \notin DOMAIN active_connections
        /\ session_id[h] \in DOMAIN sessions_collection
        /\ sessions_collection[session_id[h]] = "active"

\* The all_tasks_completed messages socket g was sent.
AllTasksCompleted(g) ==
    {i \in DOMAIN delivered[g] : delivered[g][i].type = "all_tasks_completed"}

\* C23: however often a worker delivers task_completed with a result for a
\* session, over one worker connection or over two, at most one recipe is
\* persisted for the session and no socket is sent all_tasks_completed twice.
C23_DuplicateDeliveries ==
    /\ \A s \in SessionIds : recipes[s] <= 1
    /\ \A g \in Handlers : Cardinality(AllTasksCompleted(g)) <= 1

\* The endpoint of handler h checks a token before it calls ws_manager.connect:
\* recipe_gen at lines 139-152 and cook_conversation at lines 135-147 of
\* cook.py do, recipe_gen_celery takes no token.
TokenVerified(h) == kind[h] \in {"client", "cook"}

\* C24: every connection in the registry belongs to a handler that verified
\* a token before it registered.
C24_NoUnauthenticatedRegistration ==
    \A cid \in DOMAIN active_connections : TokenVerified(active_connections[cid])

\* The call of caller c ends in this step.
CallEnds(c) == qcall[c].op # "idle" /\ qcall'[c].op = "idle"

\* C25: a get_task_status call that returns a result returns the status that
\* belongs to the Celery state it read (PENDING queued, STARTED processing,
\* SUCCESS completed, FAILURE failed, RETRY retrying, REVOKED cancelled), and
\* the hash in Redis holds that status when the call ends; a call for a task
\* id without a hash returns None and writes nothing.
C25_StatusReconciliation ==
    [][\A c \in Callers :
        /\ (CallEnds(c) /\ qcall'[c].ret.kind = "task_status")
           => LET id == qcall[c].task_id
                  st == qcall'[c].ret.status
              IN  /\ qcall[c].celery_status = "PENDING" => st = "queued"
                  /\ qcall[c].celery_status = "STARTED" => st = "processing"
                  /\ qcall[c].celery_status = "SUCCESS" => st = "completed"
                  /\ qcall[c].celery_status = "FAILURE" => st = "failed"
                  /\ qcall[c].celery_status = "RETRY" => st = "retrying"
                  /\ qcall[c].celery_status = "REVOKED" => st = "cancelled"
                  /\ id \in DOMAIN redis_client'
                  /\ redis_client'[id].status = st
        /\ (qcall[c].op = "idle" /\ qcall'[c] # qcall[c]
               /\ qcall'[c].ret.kind = "None"
               /\ qcall'[c].ret.task_id \notin DOMAIN redis_client)
           => redis_client' = redis_client
        /\ (qcall[c].op = "idle" /\ qcall'[c].op = "get_task_status")
           => qcall'[c].task_id \in DOMAIN redis_client]_vars

\* C26: the status of a task's hash moves along queued, processing, then
\* completed, failed, cancelled or retrying: it never goes from processing
\* back to queued, and never from completed, failed or cancelled to queued or
\* processing.
C26_StatusOrder ==
    [][\A id \in DOMAIN redis_client \cap DOMAIN redis_client' :
        LET a == redis_client[id].status
            b == redis_client'[id].status
        IN  /\ a \in {"completed", "failed", "cancelled"}
               => b \notin {"queued", "processing"}
            /\ a \in {"processing", "retrying"} => b # "queued"]_vars

\* C30: enqueue_recipe_generation_task either returns the id of a task that
\* was sent and has its hash in Redis, stored with status queued and the
\* session id and user id of the call, or raises with no task sent.
C30_EnqueueAllOrNothing ==
    [][\A c \in Callers :
        /\ (qcall[c].op = "enqueue" /\ qcall[c].at = "hset" /\ qcall'[c].at = "expire")
           => /\ qcall[c].task_id \in DOMAIN redis_client'
              /\ redis_client'[qcall[c].task_id]
                     = TaskHash(qcall[c].session_id, "queued", FALSE)
        /\ (qcall'[c] # qcall[c] /\ qcall'[c].ret.kind = "task_id")
           => /\ qcall'[c].ret.task_id \in DOMAIN celery_states'
              /\ qcall'[c].ret.task_id \in DOMAIN redis_client'
        /\ (qcall'[c] # qcall[c] /\ qcall'[c].ret.kind = "raised")
           => qcall'[c].ret.task_id \notin DOMAIN celery_states']_vars

\* C27: delete_session removes the session document and the session's
\* history: right after it, get_session_messages gives the empty list.
C27_DeleteRemovesHistory ==
    [][\A sid \in SessionIds :
        (sid \in DOMAIN sessions_collection /\ sid \notin DOMAIN sessions_collection')
        => get_session_messages(history_collection', sid) = <<>>]_vars

\* C28: a session document has completed_at set only while its status is
\* completed, failed or cancelled.
C28_CompletedAtOnlyTerminal ==
    \A sid \in DOMAIN sessions_collection :
        sid \in completed_at
        => sessions_collection[sid] \in {"completed", "failed", "cancelled"}

\* The entries of a history (or of a replayed prefix of it) that log events
\* of worker w.
WorkerEntries(history, w) ==
    {k \in DOMAIN history :
        history[k].message_id[1] = w /\ history[k].message_type \in WorkerTypes}

\* Socket g got the last event of worker w in a session_history replay: the
\* replayed prefix of the history holds all of w's events logged so far.
Replayed(g, w) ==
    \E i \in DOMAIN delivered[g] :
        /\ delivered[g][i].type = "session_history"
        /\ Cardinality(WorkerEntries(delivered[g][i].ref, w))
               = Cardinality(WorkerEntries(
                     get_session_messages(history_collection, session_id[w]), w))

\* Socket g got the last event of worker w from the worker's broadcast.
Broadcasted(g, w) == \E i \in DOMAIN delivered[g] : delivered[g][i] = message_data[w]

\* The positions of recipe_gen between the replay and the message loop.
Connecting == {"rg_established", "rg_log_established", "rg_enqueue", "rg_log_started"}

\* C29: when the broadcast of an event a worker has logged ends, every client
\* of the session that is in its connect sequence past the replay, with its
\* connection open and registered, has seen the event, in the replay or from
\* the broadcast.
C29_NoEventLost ==
    [][\A w \in Handlers, g \in Handlers :
        (/\ kind[w] = "worker" /\ message_data[w].type \in WorkerTypes
         /\ pc[w] = "cel_broadcast" /\ pc'[w] # "cel_broadcast"
         /\ kind[g] = "client" /\ session_id[g] = session_id[w]
         /\ pc'[g] \in Connecting
         /\ closeCode'[g] = 0 /\ ~peerGone'[g]
         /\ connection_id'[g] \in DOMAIN active_connections')
        => Replayed(g, w)' \/ Broadcasted(g, w)']_vars
====
